---- MODULE Spec2Model ----
(***************************************************************************)
(* cloudbuildval: the abstract interpreter of absint.go (State, pathtree,  *)
(* ensureSteps, execute, mkdir, cd), the manifest search of findEntrypoint *)
(* and the driver of main.go.                                              *)
(*                                                                         *)
(* A Go string is a sequence of lexemes: a name ("a", "workspace"), a verb *)
(* ("mkdir"), a flag ("-p") or one of the separators "/", ":", " ", "\n".  *)
(* The empty string is <<>>.  The splitting functions work on that         *)
(* sequence as the Go functions work on the bytes.                         *)
(*                                                                         *)
(* A pathtree node is identified by its path from root: the sequence of    *)
(* the map keys that lead to it.  root is <<>>.  The tree is the set of    *)
(* the paths of its nodes.  A nil *pathtree is NIL.                        *)
(***************************************************************************)
EXTENDS Naturals, Sequences, FiniteSets, TLC

\* ------------------------------------------------------------- strings

RECURSIVE SplitAcc(_, _, _)
SplitAcc(s, sep, cur) ==
    IF s = <<>> THEN <<cur>>
    ELSE IF Head(s) = sep THEN <<cur>> \o SplitAcc(Tail(s), sep, <<>>)
    ELSE SplitAcc(Tail(s), sep, Append(cur, Head(s)))

\* strings.Split(s, sep) for a one-lexeme separator: n separators give n+1 parts
Split(s, sep) == SplitAcc(s, sep, <<>>)

\* filepath.SplitList on unix: "" gives the empty list, otherwise split on ':'
SplitList(p) == IF p = <<>> THEN <<>> ELSE Split(p, ":")

RECURSIVE TrimLeft(_, _)
TrimLeft(s, c) == IF s # <<>> /\ Head(s) = c THEN TrimLeft(Tail(s), c) ELSE s

RECURSIVE TrimRight(_, _)
TrimRight(s, c) ==
    IF s # <<>> /\ s[Len(s)] = c THEN TrimRight(SubSeq(s, 1, Len(s) - 1), c) ELSE s

\* strings.Trim(s, "\n")
Trim(s, c) == TrimRight(TrimLeft(s, c), c)

IsPrefix(k, s) == Len(k) <= Len(s) /\ SubSeq(s, 1, Len(k)) = k

\* strings.ReplaceAll(s, k, v) for a non-empty k: leftmost non-overlapping matches
RECURSIVE ReplaceAll(_, _, _)
ReplaceAll(s, k, v) ==
    IF s = <<>> THEN <<>>
    ELSE IF IsPrefix(k, s) THEN v \o ReplaceAll(SubSeq(s, Len(k) + 1, Len(s)), k, v)
    ELSE <<Head(s)>> \o ReplaceAll(Tail(s), k, v)

\* ------------------------------------------------------------- pathtree

NIL == << <<"<nil>">> >>

Root == <<>>

Workspace == << <<"workspace">> >>

\* p.parent
Parent(node) == IF node = Root THEN NIL ELSE SubSeq(node, 1, Len(node) - 1)

\* _, ok := node.children[x]
HasChild(tree, node, x) == Append(node, x) \in tree

IsUnder(n, top) == IsPrefix(top, n)

\* newPathtree(name, parent): a fresh node with no children is stored under
\* parent.children[name]; a node already stored there is dropped with its subtree
newPathtree(tree, name, parent) ==
    {n \in tree : ~IsUnder(n, Append(parent, name))} \cup {Append(parent, name)}

Children(tree, node) == {n \in tree : Len(n) = Len(node) + 1 /\ IsUnder(n, node)}

\* the root and cwd of a State, with the outcome of the call that produced it:
\* "ok" (nil error), "err" (an error value), "panic" (a Go run-time panic)
Fs(tree, cwd, res) == [tree |-> tree, cwd |-> cwd, res |-> res]

Outcome(st, res) == [st EXCEPT !.res = res]

\* NewState: root with the one child workspace, cwd at root
NewStateFs == Fs(newPathtree({Root}, <<"workspace">>, Root), Root, "ok")

\* ------------------------------------------------------------- cd

RECURSIVE cdLoop(_, _)
cdLoop(st, l) ==
    IF l = <<>> THEN Outcome(st, "ok")
    ELSE IF st.cwd = NIL THEN Outcome(st, "panic")
    ELSE IF ~HasChild(st.tree, st.cwd, Head(l)) THEN Outcome(st, "err")
    ELSE cdLoop([st EXCEPT !.cwd = Append(st.cwd, Head(l))], Tail(l))

cd(st, args) ==
    IF args = <<>> THEN Outcome(st, "panic")
    ELSE cdLoop(st, SplitList(args[1]))

\* ------------------------------------------------------------- workspaceDir

\* the State after the switch on dir[0], and the list that is returned
workspaceDir(st, raw, setWorkspace) ==
    LET dir == Split(raw, "/")
        first == dir[1]
    IN  CASE first = <<>> ->
               [st |-> [st EXCEPT !.cwd = Root], dir |-> Tail(dir)]
          [] first = <<".">> ->
               [st |-> st, dir |-> Tail(dir)]
          [] first = <<"..">> ->
               IF st.cwd = NIL
               THEN [st |-> Outcome(st, "panic"), dir |-> <<>>]
               ELSE [st |-> [st EXCEPT !.cwd = Parent(st.cwd)], dir |-> Tail(dir)]
          [] OTHER ->
               [st |-> IF setWorkspace
                       THEN [st EXCEPT !.cwd = IF Workspace \in st.tree
                                               THEN Workspace ELSE NIL]
                       ELSE st,
                dir |-> dir]

\* ------------------------------------------------------------- mkdir

RECURSIVE mkdir(_, _)
RECURSIVE mkdirLoop(_, _, _)

\* a mkdir that makes a fresh node for the last element whether or not it is there
mkdirLastAlwaysNew(st, x) ==
    IF st.cwd = NIL THEN Outcome(st, "panic")
    ELSE Outcome([st EXCEPT !.tree = newPathtree(st.tree, x, st.cwd)], "ok")

\* the last element of the list: create it under cwd unless it is there
mkdirLast(st, x) ==
    IF st.cwd = NIL THEN Outcome(st, "panic")
    ELSE IF HasChild(st.tree, st.cwd, x) THEN Outcome(st, "ok")
    ELSE Outcome([st EXCEPT !.tree = newPathtree(st.tree, x, st.cwd)], "ok")

mkdirMissingAlwaysParents(st, l, dashp) ==
    LET m == mkdir(Outcome(st, "ok"), <<Head(l)>>)
        c == cd(Outcome(m, "ok"), <<Head(l)>>)
    IN  IF m.res = "panic" THEN m
        ELSE IF c.res = "panic" THEN c
        ELSE mkdirLoop(Outcome(c, "ok"), Tail(l), TRUE)

\* an element before the last whose cd failed
mkdirMissing(st, l, dashp) ==
    IF ~dashp THEN Outcome(st, "err")
    ELSE LET m == mkdir(Outcome(st, "ok"), <<Head(l)>>)
             c == cd(Outcome(m, "ok"), <<Head(l)>>)
         IN  IF m.res = "panic" THEN m
             ELSE IF c.res = "panic" THEN c
             ELSE mkdirLoop(Outcome(c, "ok"), Tail(l), dashp)

\* for i, x := range l
mkdirLoop(st, l, dashp) ==
    IF l = <<>> THEN Outcome(st, "ok")
    ELSE IF Len(l) = 1 THEN mkdirLast(st, Head(l))
    ELSE LET c == cd(st, <<Head(l)>>)
         IN  IF c.res = "panic" THEN c
             ELSE IF c.res = "ok" THEN mkdirLoop(c, Tail(l), dashp)
             ELSE mkdirMissing(c, l, dashp)

mkdir(st, args0) ==
    LET args == [i \in DOMAIN args0 |-> Trim(args0[i], "\n")]
        dashp == \E i \in DOMAIN args : args[i] = <<"-p">>
    IN  IF args = <<>> THEN Outcome(st, "panic")
        ELSE LET p == args[Len(args)]
                 w == workspaceDir(st, p, FALSE)
             IN  IF w.st.res = "panic" THEN w.st
                 ELSE mkdirLoop(w.st, w.dir, dashp)

\* ------------------------------------------------------------- setDir

RECURSIVE setDirLoop(_, _)
setDirLoop(st, dir) ==
    IF dir = <<>> THEN Outcome(st, "ok")
    ELSE LET m == mkdir(Outcome(st, "ok"), <<Head(dir)>>)
             c == cd(Outcome(m, "ok"), <<Head(dir)>>)
         IN  IF m.res = "panic" THEN m
             ELSE IF c.res = "panic" THEN c
             ELSE setDirLoop(Outcome(c, "ok"), Tail(dir))

\* setDir returns nothing: its outcome is "ok" or "panic"
setDir(st, Dir) ==
    IF Dir = <<>> THEN Outcome(st, "ok")
    ELSE LET w == workspaceDir(Outcome(st, "ok"), Dir, TRUE)
         IN  IF w.st.res = "panic" THEN w.st
             ELSE setDirLoop(w.st, w.dir)

\* ------------------------------------------------------------- shell

SH == <<"/", "bin", "/", "sh">>

BASH == <<"/", "bin", "/", "bash">>

LS == <<"/", "bin", "/", "ls">>

isShell(entrypoint) == entrypoint \in {BASH, SH, <<"sh">>}

\* dirCmds[verb]: the mutFn of a verb, "nil" for a verb that is not in the map
dirCmds(verb) ==
    IF verb = <<"mkdir">> THEN "mkdir"
    ELSE IF verb = <<"cd">> THEN "cd"
    ELSE "nil"

\* one thunk: s := strings.Split(arg, " "); thunk{dirCmds[s[0]], s[1:]}
parseLine(arg) ==
    LET s == Split(arg, " ")
    IN  [fn |-> dirCmds(s[1]), args |-> Tail(s)]

\* parseShellArgs: the thunks, or a panic when args[0] or args[1] is out of range
parseShellArgs(args) ==
    IF args = <<>> THEN [res |-> "panic", ts |-> <<>>]
    ELSE IF args[1] = <<"-c">>
    THEN IF Len(args) < 2 THEN [res |-> "panic", ts |-> <<>>]
         ELSE LET lines == Split(args[2], "\n")
              IN  [res |-> "ok", ts |-> [k \in DOMAIN lines |-> parseLine(lines[k])]]
    ELSE [res |-> "ok", ts |-> [k \in DOMAIN args |-> parseLine(args[k])]]

\* t.mutFn(ai, t.args...)
applyThunk(st, t) ==
    IF t.fn = "mkdir" THEN mkdir(Outcome(st, "ok"), t.args)
    ELSE cd(Outcome(st, "ok"), t.args)

\* a loop that calls the mutFn of every thunk: a nil func value panics
runThunkNoNilCheck(st, t) ==
    IF t.fn = "nil" THEN Outcome(st, "panic") ELSE applyThunk(st, t)

\* one turn of the loop of execute: a thunk with a nil mutFn is passed over
runThunk(st, t) ==
    IF t.fn = "nil" THEN Outcome(st, "ok") ELSE applyThunk(st, t)

\* ------------------------------------------------------------- macros

\* the orders in which a range over the map can visit its keys
Orders(tbl) ==
    {o \in [1..Cardinality(DOMAIN tbl) -> DOMAIN tbl] :
        \A a, b \in DOMAIN o : a # b => o[a] # o[b]}

RECURSIVE replaceStrFrom(_, _, _, _)
replaceStrFrom(tbl, order, k, s) ==
    IF k > Len(order) THEN s
    ELSE replaceStrFrom(tbl, order, k + 1, ReplaceAll(s, order[k], tbl[order[k]]))

\* replaceStr, the keys visited in the given order
replaceStr(tbl, order, s) == replaceStrFrom(tbl, order, 1, s)

\* what a call of replaceStr can return: it ranges over the map in some order
replaceStrAny(tbl, s) == {replaceStr(tbl, order, s) : order \in Orders(tbl)}

\* stringReplacement on Name, Entrypoint and Dir: the steps it can leave, every
\* call of replaceStr ranging over the map in an order of its own
stringReplacement(tbl, step) ==
    {[step EXCEPT !.Name = n, !.Entrypoint = e, !.Dir = d] :
        n \in replaceStrAny(tbl, step.Name),
        e \in replaceStrAny(tbl, step.Entrypoint),
        d \in replaceStrAny(tbl, step.Dir)}

\* stringReplacement on Args: the lists it can leave
replaceArgs(tbl, raw) ==
    {a \in [DOMAIN raw -> UNION {replaceStrAny(tbl, raw[k]) : k \in DOMAIN raw}] :
        \A k \in DOMAIN raw : a[k] \in replaceStrAny(tbl, raw[k])}

\* ------------------------------------------------------------- entrypoint

\* inDpkgPath / findEntrypointInMetadata: only a DpkgDBEntry has a file list
findEntrypointInMetadata(pkg, entrypoint) ==
    pkg.kind = "dpkg" /\ entrypoint \in pkg.files

\* findEntrypoint over the packages of a decoded SBOM
findEntrypoint(bom, entrypoint) ==
    \E pkg \in bom : findEntrypointInMetadata(pkg, entrypoint)

\* inspectImage on the answer env of docker inspect: the step as it is left,
\* and "ok", an error kind, or "panic" (index out of range on an empty list)
inspectImage(step, env) ==
    IF env.inspect = "fail" THEN [step |-> step, res |-> "inspect failed"]
    ELSE IF env.inspect = "count" THEN [step |-> step, res |-> "expected 1 inspection"]
    ELSE IF Len(step.cmd) > 0 /\ env.Cmd = <<>> THEN [step |-> step, res |-> "panic"]
    ELSE LET s1 == IF Len(step.cmd) > 0 THEN [step EXCEPT !.cmd = env.Cmd[1]] ELSE step
         IN  IF s1.Entrypoint = <<>> /\ env.Entrypoint = <<>>
             THEN [step |-> s1, res |-> "panic"]
             ELSE LET s2 == IF s1.Entrypoint = <<>>
                            THEN [s1 EXCEPT !.Entrypoint = env.Entrypoint[1]] ELSE s1
                      s3 == IF s2.Entrypoint = <<>>
                            THEN [s2 EXCEPT !.Entrypoint = s2.cmd] ELSE s2
                  IN  IF s3.Entrypoint = <<>>
                      THEN [step |-> s3, res |-> "no entrypoint or cmd"]
                      ELSE [step |-> s3, res |-> "ok"]

isCachedNever(containers, name) == FALSE

\* if ai.containers[step.Name] != nil { continue }
isCached(containers, name) == name \in DOMAIN containers

\* ------------------------------------------------------------- inputs

MaxSteps == 2

\* the macro table of the run (buildReplacements)
Macros ==
    [k \in {<<"$PROJECT_ID">>, <<"$REPO_NAME">>} |->
        IF k = <<"$PROJECT_ID">> THEN <<"proj">> ELSE <<"repo">>]

\* the macro table of a run whose steps use no macro
MacrosFs == [k \in {<<"$REPO_NAME">>} |-> <<"repo">>]

\* a table in which the value given for one token holds another token
\* (-project_id '$REPO_NAME')
MacrosChained ==
    [k \in {<<"$PROJECT_ID">>, <<"$REPO_NAME">>} |->
        IF k = <<"$PROJECT_ID">> THEN <<"$REPO_NAME">> ELSE <<"repo">>]

MacroTables == {Macros, MacrosChained}

ImageA == <<"gcr.io", "/", "proj", "/", "builder">>

ImageAMacro == <<"gcr.io", "/", "$PROJECT_ID", "/", "builder">>

ImageB == <<"ubuntu">>

NameInputs == {ImageA, ImageAMacro, ImageB}

OverrideInputs == {<<>>, LS}

\* what the docker commands answer for one image: pull, inspect (Config.Entrypoint
\* and Config.Cmd of the one record, or a failure, or a wrong record count), and
\* sbom with the packages of the decoded file
BomInputs ==
    { {[kind |-> "dpkg", files |-> {SH, LS}]},
      {[kind |-> "dpkg", files |-> {LS}], [kind |-> "other", files |-> {SH}]} }

Env(pull, inspect, ep, cmd, sbom, bom) ==
    [pull |-> pull, inspect |-> inspect, Entrypoint |-> ep, Cmd |-> cmd,
     sbom |-> sbom, bom |-> bom]

InspectInputs ==
    {<<>>, <<SH>>, << <<>> >>} \X {<<>>, <<BASH>>}

EnvInputs ==
    {Env(FALSE, "fail", <<>>, <<>>, "fail", {})}
    \cup {Env(TRUE, k, <<>>, <<>>, "fail", {}) : k \in {"fail", "count"}}
    \cup {Env(TRUE, "one", ic[1], ic[2], k, {}) :
             ic \in InspectInputs, k \in {"fail", "decode"}}
    \cup {Env(TRUE, "one", ic[1], ic[2], "ok", bom) :
             ic \in InspectInputs, bom \in BomInputs}

\* an image that pulls, declares /bin/sh and ships it
GoodEnv == {Env(TRUE, "one", <<SH>>, <<>>, "ok", {[kind |-> "dpkg", files |-> {SH, LS}]})}

ScriptFooBar ==
    << <<"-c">>,
       <<"mkdir", " ", "-p", " ", "foo", "\n", "cd", " ", "foo", "\n",
         "mkdir", " ", "bar">> >>

\* the argument lists and the dirs of the steps of Spec, whose inputs vary the images
ArgsInputs == { << <<"mkdir", " ", "a">> >> }

DirInputs == {<<>>}

\* the paths, command lines, argument lists and dirs of the steps of SpecFs,
\* whose inputs vary the directory commands
PathInputs ==
    { <<"a">>, <<"a", "/", "b">>, <<"a", "/", "b", "/", "c">>,
      <<"..">>, <<"/", "a">>, <<"a", ":", "b">> }

FsLines ==
    {<<"mkdir", " ">> \o p : p \in PathInputs}
    \cup {<<"mkdir", " ", "-p", " ">> \o p : p \in PathInputs}
    \cup {<<"cd", " ">> \o p : p \in PathInputs}
    \cup {<<"echo", " ", "hi">>, <<"cd">>, <<"mkdir">>}

FsArgsInputs ==
    {<<line>> : line \in FsLines}
    \cup { ScriptFooBar,
           <<>>,
           << <<"-c">> >>,
           << <<"mkdir", " ", "a">>, <<"cd", " ", "a">> >>,
           << <<"mkdir", " ", "a">>, <<"echo", " ", "hi">>, <<"cd", " ", "b">>,
              <<"mkdir", " ", "c">> >>,
           << <<"mkdir", " ", "-p", " ", "a", "/", "b", "/", "c">>,
              <<"cd", " ", "a", "/", "b", "/", "c">> >> }

FsDirInputs == {<<>>, <<"a">>, <<"..">>, <<"a", "/", "/", "b">>}

\* the steps and the argument lists of SpecMacro, whose inputs vary the macros
MacroStepInputs ==
    [Name : {ImageAMacro, ImageB}, Entrypoint : {SH},
     Dir : {<<>>, <<"$PROJECT_ID">>}, cmd : {<<>>}]

MacroArgsInputs ==
    { << <<"mkdir", " ", "$PROJECT_ID">> >>, << <<"mkdir", " ", "$REPO_NAME">> >> }

FsStepInputs ==
    [Name : {ImageB}, Entrypoint : {SH}, Dir : FsDirInputs, cmd : {<<>>}]

StepInputs ==
    [Name : NameInputs, Entrypoint : OverrideInputs, Dir : DirInputs, cmd : {<<>>}]

StepLists(S) == UNION {[1..n -> S] : n \in 1..MaxSteps}

\* ------------------------------------------------------------- state

VARIABLES
    steps,          \* cb.Steps, as ensureSteps rewrites them
    replacements,   \* State.replacements
    containers,     \* State.containers: image name -> decoded SBOM
    root,           \* State.root: the set of the paths of the nodes
    cwd,            \* State.cwd
    pc,             \* where main is
    i,              \* the index of the loop main is in
    thunks,         \* the thunks of the step being executed that are still to run
    err,            \* the error main logs when pc = "fatal"
    calls,          \* history: the docker commands run, in order
    input,          \* history: the steps as they were read
    image,          \* history: image name -> what docker inspect answered
    insp,           \* history: the last call of inspectImage
    stepRun,        \* history: the args and the starting State of the last execute
    last            \* history: the last directory operation

vars ==
    <<steps, replacements, containers, root, cwd, pc, i, thunks, err, calls,
      input, image, insp, stepRun, last>>

NoOp ==
    [op |-> "none", args |-> <<>>, pre |-> NewStateFs, res |-> "ok",
     via |-> [op |-> "none", args |-> <<>>, res |-> "ok", from |-> Root, n |-> 0]]

\* the record of an operation that took pre to post
Did(op, args, pre, post) ==
    [op |-> op, args |-> args, pre |-> Outcome(pre, "ok"), res |-> post.res,
     via |-> [op |-> last.op, args |-> last.args, res |-> last.res,
              from |-> last.pre.cwd,
              n |-> IF last.op = "cd" /\ last.args # <<>>
                    THEN Len(SplitList(last.args[1])) ELSE 0]]

Here == Fs(root, cwd, "ok")

InitWith(S, tbl) ==
    /\ steps \in StepLists(S)
    /\ input = steps
    /\ replacements = tbl
    /\ containers = <<>>
    /\ root = NewStateFs.tree
    /\ cwd = NewStateFs.cwd
    /\ pc = "ensure"
    /\ i = 1
    /\ thunks = <<>>
    /\ err = "none"
    /\ calls = <<>>
    /\ image = <<>>
    /\ insp = [called |-> FALSE]
    /\ stepRun = [ran |-> FALSE]
    /\ last = NoOp

Init == InitWith(StepInputs, Macros)

\* ------------------------------------------------------------- ensureSteps

\* the body of the first loop of ensureSteps for one step, after the string
\* replacement: the step and the cache as they are left, the docker commands
\* run, and "ok", the error that is returned, or "panic"
ensureImage(cache, step, env) ==
    LET name == step.Name
        r == inspectImage(step, env)
        out(s, c, res, cmds) ==
            [step |-> s, containers |-> c, res |-> res,
             calls |-> [k \in DOMAIN cmds |-> <<cmds[k], name>>]]
    IN  IF isCached(cache, name) THEN out(step, cache, "ok", <<>>)
        ELSE IF ~env.pull THEN out(step, cache, "unable to ensure", <<"pull">>)
        ELSE IF r.res # "ok" THEN out(r.step, cache, r.res, <<"pull", "inspect">>)
        ELSE IF env.sbom = "fail"
        THEN out(r.step, cache, "unable to fetch SBOM", <<"pull", "inspect", "sbom">>)
        ELSE IF env.sbom = "decode"
        THEN out(r.step, cache, "panic", <<"pull", "inspect", "sbom">>)
        ELSE out(r.step, (name :> env.bom) @@ cache, "ok", <<"pull", "inspect", "sbom">>)

\* a main that logs the error of a call and goes on
AfterGoesOn(res, then) == IF res = "panic" THEN "panic" ELSE then

\* where main goes after a call that ended res
After(res, then) == IF res = "ok" THEN then ELSE IF res = "panic" THEN "panic" ELSE "fatal"

\* ensureSteps, first loop: one step
EnsureLoop(Envs) ==
    /\ pc = "ensure"
    /\ i <= Len(steps)
    /\ \E s1 \in stringReplacement(replacements, steps[i]), env \in Envs :
         LET r == ensureImage(containers, s1, env)
             inspected == <<"inspect", s1.Name>> \in {r.calls[k] : k \in DOMAIN r.calls}
         IN  /\ steps' = [steps EXCEPT ![i] = r.step]
             /\ containers' = r.containers
             /\ calls' = calls \o r.calls
             /\ pc' = After(r.res, "ensure")
             /\ err' = IF r.res \in {"ok", "panic"} THEN err ELSE r.res
             /\ i' = IF r.res = "ok" THEN i + 1 ELSE i
             /\ insp' = IF inspected
                        THEN [called |-> TRUE, name |-> s1.Name,
                              override |-> s1.Entrypoint, inspect |-> env.inspect,
                              Entrypoint |-> env.Entrypoint, Cmd |-> env.Cmd,
                              res |-> inspectImage(s1, env).res,
                              result |-> inspectImage(s1, env).step.Entrypoint]
                        ELSE insp
             /\ image' = IF inspected /\ env.inspect = "one"
                         THEN (s1.Name :> [Entrypoint |-> env.Entrypoint, Cmd |-> env.Cmd])
                              @@ image
                         ELSE image
    /\ UNCHANGED <<replacements, root, cwd, thunks, input, stepRun, last>>

\* the end of a loop of ensureSteps; the return of ensureSteps after the third
LoopExit ==
    /\ pc \in {"ensure", "setdir", "check"}
    /\ i > Len(steps)
    /\ pc' = IF pc = "ensure" THEN "setdir" ELSE IF pc = "setdir" THEN "check" ELSE "execute"
    /\ i' = 1
    /\ UNCHANGED <<steps, replacements, containers, root, cwd, thunks, err, calls,
                   input, image, insp, stepRun, last>>

\* ensureSteps, second loop ("check paths"): setDir of a step that names a Dir
EnsureSetDir ==
    /\ pc = "setdir"
    /\ i <= Len(steps)
    /\ LET r == setDir(Here, steps[i].Dir)
       IN  IF steps[i].Dir # <<>>
           THEN /\ root' = r.tree
                /\ cwd' = r.cwd
                /\ last' = Did("setDir", <<steps[i].Dir>>, Here, r)
                /\ pc' = After(r.res, "setdir")
                /\ i' = IF r.res = "ok" THEN i + 1 ELSE i
           ELSE /\ i' = i + 1
                /\ UNCHANGED <<root, cwd, last, pc>>
    /\ UNCHANGED <<steps, replacements, containers, thunks, err, calls, input,
                   image, insp, stepRun>>

\* checkEntrypoint: nil, or the error "Entrypoint not found"; a panic on a nil SBOM
checkEntrypoint(cache, step) ==
    IF ~isCached(cache, step.Name) THEN "panic"
    ELSE IF ~findEntrypoint(cache[step.Name], step.Entrypoint)
    THEN "entrypoint not found"
    ELSE "ok"

\* what ensureSteps does with the error of checkEntrypoint: it is dropped
checkResult(res) == IF res = "panic" THEN "panic" ELSE "ok"

\* ensureSteps, third loop: checkEntrypoint of one step
EnsureCheck ==
    /\ pc = "check"
    /\ i <= Len(steps)
    /\ LET res == checkResult(checkEntrypoint(containers, steps[i]))
       IN  /\ pc' = After(res, "check")
           /\ err' = IF res \in {"ok", "panic"} THEN err ELSE res
           /\ i' = IF res = "ok" THEN i + 1 ELSE i
    /\ UNCHANGED <<steps, replacements, containers, root, cwd, thunks, calls,
                   input, image, insp, stepRun, last>>

\* ------------------------------------------------------------- execute

\* execute up to the loop over the thunks: setDir, then parseShellArgs for a shell
ExecuteBegin(Args) ==
    /\ pc = "execute"
    /\ i <= Len(steps)
    /\ \E raw \in Args : \E args \in replaceArgs(replacements, raw) :
         LET d == setDir(Here, steps[i].Dir)
             shell == isShell(steps[i].Entrypoint)
             p == IF shell THEN parseShellArgs(args) ELSE [res |-> "ok", ts |-> <<>>]
             res == IF d.res = "panic" THEN "panic" ELSE p.res
         IN  /\ root' = d.tree
             /\ cwd' = d.cwd
             /\ last' = IF steps[i].Dir # <<>>
                        THEN Did("setDir", <<steps[i].Dir>>, Here, d) ELSE last
             /\ stepRun' = [ran |-> TRUE, step |-> steps[i], args |-> args,
                            pre |-> Here, n |-> Len(p.ts)]
             /\ thunks' = IF res = "ok" THEN p.ts ELSE <<>>
             /\ pc' = IF res = "ok" /\ p.ts # <<>> THEN "thunks" ELSE After(res, "execute")
             /\ i' = IF res = "ok" /\ p.ts = <<>> THEN i + 1 ELSE i
    /\ UNCHANGED <<steps, replacements, containers, err, calls, input, image, insp>>

\* execute, the loop over the thunks: one thunk
ExecuteThunk ==
    /\ pc = "thunks"
    /\ thunks # <<>>
    /\ LET t == Head(thunks)
           r == runThunk(Here, t)
       IN  /\ root' = r.tree
           /\ cwd' = r.cwd
           /\ last' = Did(IF t.fn = "nil" THEN "skip" ELSE t.fn, t.args, Here, r)
           /\ thunks' = IF r.res = "ok" THEN Tail(thunks) ELSE thunks
           /\ pc' = IF r.res = "ok" /\ Tail(thunks) # <<>> THEN "thunks"
                    ELSE After(r.res, "execute")
           /\ err' = IF r.res = "err" THEN "failed to run" ELSE err
           /\ i' = IF r.res = "ok" /\ Tail(thunks) = <<>> THEN i + 1 ELSE i
    /\ UNCHANGED <<steps, replacements, containers, calls, input, image, insp, stepRun>>

\* main after the last step: the final tree is logged
Finish ==
    /\ pc = "execute"
    /\ i > Len(steps)
    /\ pc' = "done"
    /\ UNCHANGED <<steps, replacements, containers, root, cwd, i, thunks, err,
                   calls, input, image, insp, stepRun, last>>

Next ==
    \/ EnsureLoop(EnvInputs)
    \/ LoopExit
    \/ EnsureSetDir
    \/ EnsureCheck
    \/ ExecuteBegin(ArgsInputs)
    \/ ExecuteThunk
    \/ Finish

Spec == Init /\ [][Next]_vars

InitFs == InitWith(FsStepInputs, MacrosFs)

NextFs ==
    \/ EnsureLoop(GoodEnv)
    \/ LoopExit
    \/ EnsureSetDir
    \/ EnsureCheck
    \/ ExecuteBegin(FsArgsInputs)
    \/ ExecuteThunk
    \/ Finish

SpecFs == InitFs /\ [][NextFs]_vars

InitMacro == \E tbl \in MacroTables : InitWith(MacroStepInputs, tbl)

NextMacro ==
    \/ EnsureLoop(GoodEnv)
    \/ LoopExit
    \/ EnsureSetDir
    \/ EnsureCheck
    \/ ExecuteBegin(MacroArgsInputs)
    \/ ExecuteThunk
    \/ Finish

SpecMacro == InitMacro /\ [][NextMacro]_vars

\* ------------------------------------------------------------- claims

\* the first loop of ensureSteps is over; ensureSteps has returned nil
FirstLoopDone == pc \in {"setdir", "check", "execute", "thunks", "done"}

EnsureReturnedNil == pc \in {"execute", "thunks", "done"}

\* C1: when the manifest of some step's image has no package whose file list
\* holds the step's effective entrypoint, ensureSteps returns an error: main
\* executes no step and logs no final tree.
C1_NotFoundAborts ==
    EnsureReturnedNil =>
        \A k \in DOMAIN steps :
            findEntrypoint(containers[steps[k].Name], steps[k].Entrypoint)

Count(kind, name) == Cardinality({k \in DOMAIN calls : calls[k] = <<kind, name>>})

\* C2: in one run each of pull, inspect and sbom is run at most once for an
\* image reference (after substitution), and once the first loop is over it has
\* been run exactly once for the image of every step, however many steps name it.
C2_AcquiredOnce ==
    /\ \A k \in DOMAIN calls : Count(calls[k][1], calls[k][2]) = 1
    /\ FirstLoopDone =>
           \A k \in DOMAIN steps :
               \A kind \in {"pull", "inspect", "sbom"} : Count(kind, steps[k].Name) = 1

\* two steps that name one image in two spellings, one pull
C2_Witness ==
    /\ FirstLoopDone
    /\ Len(steps) = 2
    /\ steps[1].Name = steps[2].Name
    /\ input[1].Name # input[2].Name
    /\ Count("pull", steps[1].Name) = 1

\* override, else the first declared entrypoint, else the first declared command
Fallback(override, ep, cmd) ==
    IF override # <<>> THEN override
    ELSE IF ep # <<>> THEN ep[1]
    ELSE IF cmd # <<>> THEN cmd[1]
    ELSE <<>>

\* C3: inspectImage leaves as the step's entrypoint the override if there is
\* one, else the first element of the declared entrypoint list, else the first
\* element of the declared command list.
C3_FallbackOrder ==
    (/\ insp.called
     /\ insp.inspect = "one"
     /\ Fallback(insp.override, insp.Entrypoint, insp.Cmd) # <<>>)
    => /\ insp.res = "ok"
       /\ insp.result = Fallback(insp.override, insp.Entrypoint, insp.Cmd)

\* C4: with no override, no declared entrypoint and no declared command,
\* inspectImage returns the error that names the image; it does not panic.
C4_NothingDeclaredIsError ==
    (/\ insp.called
     /\ insp.inspect = "one"
     /\ insp.override = <<>>
     /\ insp.Entrypoint = <<>>
     /\ insp.Cmd = <<>>)
    => insp.res = "no entrypoint or cmd"

\* C5: when ensureSteps has returned nil, the entrypoint of every step is the
\* one the fallback rule gives for its override and its image, also for a step
\* whose image an earlier step had put in the cache.
C5_EveryStepResolved ==
    EnsureReturnedNil =>
        \A k \in DOMAIN steps :
            /\ steps[k].Entrypoint # <<>>
            /\ steps[k].Entrypoint =
                   Fallback(input[k].Entrypoint, image[steps[k].Name].Entrypoint,
                            image[steps[k].Name].Cmd)

\* the last execute ran the given args on the State of NewState, with no Dir,
\* for the entrypoint /bin/sh, and it is over
RanFromNewState(args) ==
    /\ stepRun.ran
    /\ stepRun.args = args
    /\ stepRun.pre = NewStateFs
    /\ stepRun.step.Dir = <<>>
    /\ stepRun.step.Entrypoint = SH
    /\ pc # "thunks"

\* C6: from NewState, the step /bin/sh -c "mkdir -p foo\ncd foo\nmkdir bar"
\* with no dir yields three operations, after which the tree has
\* workspace/foo/bar and cwd is workspace/foo.
C6_FooBarUnderWorkspace ==
    RanFromNewState(ScriptFooBar) =>
        /\ stepRun.n = 3
        /\ pc \in {"execute", "done"}
        /\ <<<<"workspace">>, <<"foo">>, <<"bar">>>> \in root
        /\ cwd = <<<<"workspace">>, <<"foo">>>>

PathABC == <<"a", "/", "b", "/", "c">>

\* C7: with cwd at root, mkdir -p a/b/c followed by cd a/b/c both succeed and
\* cwd ends on root/a/b/c, which has no children.
C7_MkdirThenCd ==
    RanFromNewState(<< <<"mkdir", " ", "-p", " ">> \o PathABC, <<"cd", " ">> \o PathABC >>) =>
        /\ pc \in {"execute", "done"}
        /\ cwd = <<<<"a">>, <<"b">>, <<"c">>>>
        /\ Children(root, cwd) = {}

\* C8: a cd that returns an error leaves cwd where it was before the call.
C8_FailedCdKeepsCwd ==
    (last.op = "cd" /\ last.res = "err") => cwd = last.pre.cwd

\* C9 (n = 1): after a successful cd into one existing child, cd ".." succeeds
\* and cwd is again the node the first cd started from.
C9_CdThenDotDot ==
    (/\ last.op = "cd"
     /\ last.args = << <<"..">> >>
     /\ last.via.op = "cd"
     /\ last.via.res = "ok"
     /\ last.via.n = 1
     /\ Parent(last.pre.cwd) = last.via.from)
    => /\ last.res = "ok"
       /\ cwd = last.via.from

DashP(args) == \E k \in DOMAIN args : Trim(args[k], "\n") = <<"-p">>

\* the descent into an element before the last of l returns an error
RECURSIVE DescentFails(_, _)
DescentFails(st, l) ==
    /\ Len(l) > 1
    /\ LET c == cd(st, <<Head(l)>>)
       IN  \/ c.res = "err"
           \/ c.res = "ok" /\ DescentFails(c, Tail(l))

\* mkdir without -p of a path with an intermediate segment that cannot be entered
MissingIntermediate(pre, args) ==
    /\ args # <<>>
    /\ ~DashP(args)
    /\ LET w == workspaceDir(pre, Trim(args[Len(args)], "\n"), FALSE)
       IN  w.st.res = "ok" /\ DescentFails(w.st, w.dir)

AtUnknownVerb == pc = "thunks" /\ thunks # <<>> /\ Head(thunks).fn = "nil"

\* C11: a command line whose verb is neither mkdir nor cd contributes no
\* operation and no error: the step that runs it leaves the tree and cwd as
\* they were, raises no error and goes on to the next line (or the next step).
C11_UnknownVerbSkipped ==
    [][AtUnknownVerb =>
          /\ root' = root
          /\ cwd' = cwd
          /\ err' = err
          /\ thunks' = Tail(thunks)
          /\ pc' = IF Tail(thunks) # <<>> THEN "thunks" ELSE "execute"
          /\ i' = IF Tail(thunks) # <<>> THEN i ELSE i + 1]_vars

\* "echo hi" was skipped on a tree that mkdir had grown, and a line follows it
C11_Witness ==
    /\ last.op = "skip"
    /\ last.args = << <<"hi">> >>
    /\ last.pre.tree # NewStateFs.tree
    /\ pc = "thunks"
    /\ thunks # <<>>

\* C12: as long as ensureSteps has not returned (substitution, acquisition,
\* entrypoint resolution and verification are not over for every step), no
\* directory node has been created and cwd has not moved.
C12_PhaseOrder ==
    pc \in {"ensure", "setdir", "check"} =>
        /\ root = NewStateFs.tree
        /\ cwd = NewStateFs.cwd

\* a dir that does not start with "/" and has no ".." segment
RelativeNoDotDot(dir) ==
    LET segs == Split(dir, "/")
    IN  /\ segs[1] # <<>>
        /\ \A k \in DOMAIN segs : segs[k] # <<"..">>

\* C13: for a declared dir that does not start with "/" and has no ".."
\* segment (empty segments included, as in a//b), setDir creates nodes only in
\* the subtree of workspace and leaves cwd in that subtree.
C13_SetDirInWorkspace ==
    (last.op = "setDir" /\ RelativeNoDotDot(last.args[1])) =>
        /\ \A n \in root \ last.pre.tree : IsUnder(n, Workspace)
        /\ IsUnder(cwd, Workspace)

\* C14: after any sequence of setDir, mkdir and cd, paths that start with ".."
\* while cwd is root included, cwd is a non-nil node of the tree under root.
C14_CwdReachable ==
    /\ cwd # NIL
    /\ cwd \in root

\* C15: the tree only grows: every node of a state, identified by its path
\* from root, is a node of the next state, so no node is removed or replaced
\* with its descendants lost; root/workspace is always there.
C15_TreeGrowsOnly ==
    /\ Workspace \in root
    /\ [][root \subseteq root' /\ Workspace \in root']_vars

\* mkdir /a on a tree in which a already has the child b: a/b is still there
C15_Witness ==
    /\ last.op = "mkdir"
    /\ last.args = << <<"/", "a">> >>
    /\ last.res = "ok"
    /\ << <<"a">>, <<"b">> >> \in last.pre.tree
    /\ << <<"a">>, <<"b">> >> \in root

\* the path operand of a mkdir
MkdirPath(args) == Trim(args[Len(args)], "\n")

\* C16: a mkdir that follows at once a successful mkdir with the same
\* arguments returns no error and leaves the tree as the first one left it;
\* stated for the paths that neither start with "/" nor have a ".." segment.
C16_MkdirIdempotent ==
    (/\ last.op = "mkdir"
     /\ last.args # <<>>
     /\ RelativeNoDotDot(MkdirPath(last.args))
     /\ last.via.op = "mkdir"
     /\ last.via.res = "ok"
     /\ last.via.args = last.args)
    => /\ last.res = "ok"
       /\ root = last.pre.tree

\* the steps that the first loop of ensureSteps has been through
Substituted == {k \in DOMAIN steps : FirstLoopDone \/ (pc = "ensure" /\ k < i)}

\* C17: the name and the dir that stringReplacement has left in a step are
\* what replaceStr gives for the name and the dir that were read in whatever
\* order the tokens of the table are applied.
C17_OrderIndependent ==
    \A k \in Substituted :
        \A order \in Orders(replacements) :
            /\ steps[k].Name = replaceStr(replacements, order, input[k].Name)
            /\ steps[k].Dir = replaceStr(replacements, order, input[k].Dir)

\* a shell operation (a thunk of mkdir or cd) has returned an error
ShellOpFailed == last.op \in {"mkdir", "cd"} /\ last.res = "err"

\* C18: when a shell operation of a step returns an error, main stops there:
\* the lines of the step that were still to run stay unrun, no step is taken
\* after it, and the nodes that were in the tree before the operation are
\* still in it.
C18_FailFast ==
    /\ [](ShellOpFailed =>
             /\ pc = "fatal"
             /\ err = "failed to run"
             /\ last.pre.tree \subseteq root)
    /\ [][~ShellOpFailed]_vars

\* cd b fails in the first of two steps, after mkdir a, with mkdir c still to run
C18_Witness ==
    /\ ShellOpFailed
    /\ pc = "fatal"
    /\ Len(thunks) > 1
    /\ i < Len(steps)
    /\ last.pre.tree # NewStateFs.tree
    /\ last.pre.tree \subseteq root

\* C19: a mkdir that returns no error, for a path that starts neither with "/"
\* nor with "..", leaves cwd on the node it was on before the call.
C19_MkdirKeepsCwd ==
    (/\ last.op = "mkdir"
     /\ last.res = "ok"
     /\ last.args # <<>>
     /\ Split(MkdirPath(last.args), "/")[1] \notin {<<>>, <<"..">>})
    => cwd = last.pre.cwd

\* C20: the execute of a step whose entrypoint is a shell ends by returning
\* nil or an error, whatever the args are: it does not panic.
C20_ShellStepNeverPanics ==
    (stepRun.ran /\ isShell(stepRun.step.Entrypoint)) => pc # "panic"

====
